---------------------------- MODULE Spec2Model ----------------------------
(***************************************************************************)
(* A model of NucleusClient (src/src/utils/client.ts): the rotating        *)
(* authentication hash (authToken / _isValidHash), the command dispatcher  *)
(* (commandHandler) and the registration of lifecycle events               *)
(* (registerEvents / eventCapture).                                        *)
(*                                                                         *)
(* Time is a count of ticks since 00:00:00 on day 1 of the month; there    *)
(* are TicksPerMinute ticks in a minute.  Two clients ("issuer" and        *)
(* "verifier") run the same code with the same environment and clock.      *)
(***************************************************************************)
EXTENDS Integers, Sequences, FiniteSets, TLC

VARIABLES
    clock,      \* new Date(): ticks since the start of the month
    boot,       \* the time at which the clients were constructed
    env,        \* process.env["NUCLEUS_AUTH"]; "" when it is not set
    authHash,   \* this.authHash of each client
    last,       \* the last authToken call: who, when, NUCLEUS_AUTH, argument,
                \* the authHash before it, and what it returned
    calls,      \* the callbacks that commandHandler has invoked, in order
    lastDispatch, \* the last commandHandler call: its interaction, whether it
                \* called a callback, whether it logged, what it notified
    unhandled,  \* the rejected promises that nothing awaits or catches
    registered, \* registerEvents has returned
    importing,  \* the event files whose import() has not resolved yet
    listeners,  \* the listeners of each event, in the order they were added
    runs,       \* how often the callback of each event file has been invoked
    caught,     \* how many "Error in event" lines each event file has logged
    emitsSince, \* the emits of its event since each event file was attached
    undelivered, \* event files that missed an emit made after registerEvents
    emitted,    \* the number of emit calls so far
    lastEmit    \* the last emit: its event, the listeners it found, the files
                \* whose callbacks failed, and the listeners it invoked

rotatorVars == <<clock, boot, env, authHash, last>>
dispatchVars == <<calls, lastDispatch, unhandled>>
eventVars ==
    <<registered, importing, listeners, runs, caught, emitsSince, undelivered,
      emitted, lastEmit>>

vars == <<rotatorVars, dispatchVars, eventVars>>

---------------------------------------------------------------------------
(* Bounds of the model *)

\* Resolution of the clock: ticks in one minute.
TicksPerMinute == 2

\* The clock advances at most this many ticks after construction.
MaxElapsed == 5

\* commandHandler invokes at most this many callbacks.
MaxDispatch == 2

\* At most this many events are emitted.
MaxEmit == 3

---------------------------------------------------------------------------
(* The clock and the components of a Date *)

\* The tick at which minute m of hour h of day d begins.
At(d, h, m) == (((d - 1) * 24 + h) * 60 + m) * TicksPerMinute

\* Times at which the process may have been started.
StartTimes == { At(10, 14, 5), At(10, 13, 58), At(10, 14, 0) }

\* The number of whole minutes since the start of the month.
MinuteIndex(t) == t \div TicksPerMinute

getMinutes(t) == MinuteIndex(t) % 60
getHours(t) == (MinuteIndex(t) \div 60) % 24
getDate(t) == 1 + (MinuteIndex(t) \div (60 * 24))

\* new Date(date.getTime() + 60000): one minute later.
Window == TicksPerMinute

\* The % of JavaScript: the remainder has the sign of the dividend.
JSRem(a, b) == IF a >= 0 THEN a % b ELSE 0 - ((0 - a) % b)

---------------------------------------------------------------------------
(* The hash and the messages that are hashed *)

Clients == {"issuer", "verifier"}
Peer(c) == IF c = "issuer" THEN "verifier" ELSE "issuer"

\* The value of NUCLEUS_AUTH when it is configured.
Secret == "s3cr3t"

\* crypto.createHash("sha256").update(msg).digest("hex"), taken as injective on
\* messages; a digest is never the empty string.
Hash(msg) == "sha256(" \o msg \o ")"

\* `${auth}${date.getDate()}${date.getHours()}${date.getMinutes()}`
toHash(auth, t) ==
    auth \o ToString(getDate(t)) \o ToString(getHours(t)) \o ToString(getMinutes(t))

\* `${auth}${date.getDate()}${date.getHours()}${(date.getMinutes() - 1) % 60}`
previousMinute(auth, t) ==
    auth \o ToString(getDate(t)) \o ToString(getHours(t))
         \o ToString(JSRem(getMinutes(t) - 1, 60))

\* The authHash that the constructor stores.
InitialAuthHash(t) == [now |-> "", prev |-> "", expires |-> t]

\* The authHash that a recomputation at time t stores.
Generate(auth, t) ==
    [now |-> Hash(toHash(auth, t)),
     prev |-> Hash(previousMinute(auth, t)),
     expires |-> t + Window]

---------------------------------------------------------------------------
(* authToken(test?) *)

\* The optional argument: absent (undefined) or a string.
Undefined == [present |-> FALSE, value |-> ""]
Str(s) == [present |-> TRUE, value |-> s]

\* JavaScript truthiness of the argument: undefined and "" are falsy.
TruthyArg(test) == test.present /\ test.value # ""

\* A return value of authToken: a boolean, or the authHash object.
NoHash == [now |-> "", prev |-> "", expires |-> 0]
RetBool(b) == [kind |-> "boolean", bool |-> b, hash |-> NoHash]
RetHash(h) == [kind |-> "object", bool |-> FALSE, hash |-> h]

\* JavaScript truthiness of a return value: every object is truthy.
Truthy(ret) == IF ret.kind = "boolean" THEN ret.bool ELSE TRUE

isValidHash(h, hash) == hash = h.now \/ hash = h.prev

\* test ? this._isValidHash(test) : this.authHash
Answer(h, test) ==
    IF TruthyArg(test) THEN RetBool(isValidHash(h, test.value)) ELSE RetHash(h)

\* this.authHash.expires > new Date()
Fresh(h, t) == h.expires > t

\* !auth
MissingSecret(auth) == auth = ""

\* authToken with the expiry check left out: it recomputes on every call.
authTokenAlwaysRecomputes(h, t, auth, test) ==
    IF MissingSecret(auth)
    THEN [authHash |-> h, ret |-> RetBool(FALSE), recomputed |-> FALSE, logged |-> TRUE]
    ELSE [authHash |-> Generate(auth, t), ret |-> Answer(Generate(auth, t), test),
          recomputed |-> TRUE, logged |-> FALSE]

\* authToken falling back on the expired authHash when the secret is missing.
authTokenFallsBackOnExpired(h, t, auth, test) ==
    IF Fresh(h, t) \/ MissingSecret(auth)
    THEN [authHash |-> h, ret |-> Answer(h, test), recomputed |-> FALSE,
          logged |-> MissingSecret(auth) /\ ~Fresh(h, t)]
    ELSE [authHash |-> Generate(auth, t), ret |-> Answer(Generate(auth, t), test),
          recomputed |-> TRUE, logged |-> FALSE]

\* authToken rotating in place: the old now becomes the new prev.
authTokenRotatesInPlace(h, t, auth, test) ==
    LET g == [Generate(auth, t) EXCEPT !.prev = h.now] IN
    IF Fresh(h, t)
    THEN [authHash |-> h, ret |-> Answer(h, test), recomputed |-> FALSE, logged |-> FALSE]
    ELSE IF MissingSecret(auth)
    THEN [authHash |-> h, ret |-> RetBool(FALSE), recomputed |-> FALSE, logged |-> TRUE]
    ELSE [authHash |-> g, ret |-> Answer(g, test), recomputed |-> TRUE, logged |-> FALSE]

\* authToken backing off for a minute after it found no secret.
authTokenCachesFailure(h, t, auth, test) ==
    IF Fresh(h, t)
    THEN [authHash |-> h, ret |-> Answer(h, test), recomputed |-> FALSE, logged |-> FALSE]
    ELSE IF MissingSecret(auth)
    THEN [authHash |-> [h EXCEPT !.expires = t + Window], ret |-> RetBool(FALSE),
          recomputed |-> FALSE, logged |-> TRUE]
    ELSE [authHash |-> Generate(auth, t), ret |-> Answer(Generate(auth, t), test),
          recomputed |-> TRUE, logged |-> FALSE]

\* One call of authToken on a client whose authHash is h, at time t, with
\* NUCLEUS_AUTH = auth: the authHash it leaves, what it returns, whether it
\* recomputed and whether it logged the missing secret.
authToken(h, t, auth, test) ==
    IF Fresh(h, t)
    THEN [authHash |-> h, ret |-> Answer(h, test), recomputed |-> FALSE, logged |-> FALSE]
    ELSE IF MissingSecret(auth)
    THEN [authHash |-> h, ret |-> RetBool(FALSE), recomputed |-> FALSE, logged |-> TRUE]
    ELSE [authHash |-> Generate(auth, t), ret |-> Answer(Generate(auth, t), test),
          recomputed |-> TRUE, logged |-> FALSE]

\* The hash that a client generating during the minute of time t stores as now.
TokenAt(t) == Hash(toHash(Secret, t))

\* The tokens presented to authToken: the hashes of the recent minutes, the
\* empty string, and a string that is no hash.
RecentTimes == { clock - k * TicksPerMinute : k \in 0..3 }
Tokens == { TokenAt(t) : t \in RecentTimes } \cup { "", "junk" }

NoCall ==
    [client |-> "none", at |-> 0, test |-> Undefined, ret |-> RetBool(FALSE),
     auth |-> "", before |-> NoHash, recomputed |-> FALSE, logged |-> FALSE,
     fromPeer |-> FALSE, afterMissing |-> FALSE]

\* The record of a call by client c with argument test; fromPeer says that
\* test is the now that the peer's authToken() returned at this same time,
\* afterMissing that the call before it was a call of c that found no secret.
Call(c, test, fromPeer) ==
    LET r == authToken(authHash[c], clock, env, test) IN
    /\ authHash' = [authHash EXCEPT ![c] = r.authHash]
    /\ last' = [client |-> c, at |-> clock, test |-> test, ret |-> r.ret,
                auth |-> env, before |-> authHash[c], recomputed |-> r.recomputed,
                logged |-> r.logged, fromPeer |-> fromPeer,
                afterMissing |-> last.client = c /\ last.logged]
    /\ UNCHANGED <<clock, boot, env, dispatchVars, eventVars>>

\* authToken(): the current credential.
CurrentCredential(c) == Call(c, Undefined, FALSE)

\* authToken(token): validation of a presented token.
Validate(c) == \E tok \in Tokens : Call(c, Str(tok), FALSE)

\* authToken(token) with the now that the peer has just returned.
ValidatePeerToken(c) ==
    /\ last.client = Peer(c)
    /\ last.at = clock
    /\ ~last.test.present
    /\ last.ret.kind = "object"
    /\ Call(c, Str(last.ret.hash.now), TRUE)

\* Time passes.
Tick ==
    /\ clock - boot < MaxElapsed
    /\ clock' = clock + 1
    /\ UNCHANGED <<boot, env, authHash, last, dispatchVars, eventVars>>

\* The environment variable is set or removed.
SetEnv ==
    /\ env' = IF env = "" THEN Secret ELSE ""
    /\ UNCHANGED <<clock, boot, authHash, last, dispatchVars, eventVars>>

InitRotator ==
    /\ clock \in StartTimes
    /\ boot = clock
    /\ env \in {"", Secret}
    /\ authHash = [c \in Clients |-> InitialAuthHash(clock)]
    /\ last = NoCall

\* Times of one month at which a long-running process may be asked for its
\* credential.
CalendarTimes ==
    { At(1, 1, 23), At(1, 2, 3), At(1, 12, 3), At(11, 2, 3), At(11, 12, 3),
      At(12, 1, 23) }

\* The day of the month, the hour and the minute of time t.
Triple(t) == <<getDate(t), getHours(t), getMinutes(t)>>

\* A long time passes: the clock moves on to a later time of the month.
Wait ==
    /\ \E t \in CalendarTimes : t > clock /\ clock' = t
    /\ UNCHANGED <<boot, env, authHash, last, dispatchVars, eventVars>>

InitCalendar ==
    /\ clock \in CalendarTimes
    /\ boot = clock
    /\ env = Secret
    /\ authHash = [c \in Clients |-> InitialAuthHash(clock)]
    /\ last = NoCall

NextCalendar ==
    \/ Wait
    \/ \E c \in Clients : CurrentCredential(c)

NextRotator ==
    \/ Tick
    \/ SetEnv
    \/ \E c \in Clients : CurrentCredential(c)
    \/ \E c \in Clients : Validate(c)
    \/ \E c \in Clients : ValidatePeerToken(c)

---------------------------------------------------------------------------
(* commandHandler(interaction) *)

\* this.commands, as the constructor fills it.
Commands == {"ping", "summary"}

\* this.commands is an object literal: besides its own keys it answers to the
\* property names it inherits from Object.prototype.
Inherited == {"constructor"}

\* this.commands[commandName] is truthy.
Found(name) == name \in Commands \cup Inherited

\* The command names that an interaction may carry.
CommandNames == Commands \cup Inherited \cup {"unknown"}

\* What calling a callback can do: throw before it returns, or return a
\* promise.  The callback of summary is an async function, which never throws
\* to its caller; the callback of ping may do either; an inherited property
\* has no callback, and calling it throws a TypeError.
Behaviours(name) ==
    IF name = "summary" THEN {"async"}
    ELSE IF name \in Inherited THEN {"throws"}
    ELSE {"throws", "async"}

\* The interactions handed to commandHandler.
Interactions ==
    { [isCommand |-> k, commandName |-> n, replied |-> r, behaviour |-> b] :
        k \in BOOLEAN, n \in CommandNames, r \in BOOLEAN, b \in {"throws", "async"} }

\* The catch block: the error is logged and a notification is started, an
\* amendment when interaction.replied and a new message otherwise; the promise
\* of the notification is neither awaited nor caught, and commandHandler
\* returns.
Catch(i) ==
    [name |-> i.commandName, replied |-> i.replied, callback |-> "threw",
     logged |-> TRUE, notify |-> IF i.replied THEN "editReply" ELSE "followUp",
     notifyState |-> "pending", handler |-> "returned"]

\* The callback awaited: commandHandler returns only when its promise settles.
ReturnedAwaited(i) ==
    [name |-> i.commandName, replied |-> i.replied, callback |-> "pending",
     logged |-> FALSE, notify |-> "none", notifyState |-> "none",
     handler |-> "awaiting"]

\* The callback returned a promise: the try block ends, the promise is
\* dropped, and commandHandler returns.
Returned(i) ==
    [name |-> i.commandName, replied |-> i.replied, callback |-> "pending",
     logged |-> FALSE, notify |-> "none", notifyState |-> "none",
     handler |-> "returned"]

\* The try statement with the call of the callback awaited.
InvokeAwaited(i) == IF i.behaviour = "throws" THEN Catch(i) ELSE ReturnedAwaited(i)

\* The try statement around the call of the callback.
Invoke(i) == IF i.behaviour = "throws" THEN Catch(i) ELSE Returned(i)

\* commandHandler(i): nothing is done for an interaction that is no command
\* or whose name this.commands does not answer to.
Dispatch(i) ==
    /\ Len(calls) < MaxDispatch
    /\ Found(i.commandName) => i.behaviour \in Behaviours(i.commandName)
    /\ IF i.isCommand /\ Found(i.commandName)
       THEN /\ calls' = Append(calls, Invoke(i))
            /\ lastDispatch' = [interaction |-> i, invoked |-> TRUE,
                                logged |-> Invoke(i).logged,
                                notify |-> Invoke(i).notify]
       ELSE /\ calls' = calls
            /\ lastDispatch' = [interaction |-> i, invoked |-> FALSE,
                                logged |-> FALSE, notify |-> "none"]
    /\ UNCHANGED <<unhandled, rotatorVars, eventVars>>

\* commandHandler(interaction)
CommandHandler == \E i \in Interactions : Dispatch(i)

\* The promise that a callback returned is fulfilled, or it is rejected (one
\* of the awaits of the callback fails); commandHandler kept no reference to
\* it, so a rejection is handled by nothing.
CallbackSettles ==
    \E n \in 1..Len(calls), ok \in BOOLEAN :
        /\ calls[n].callback = "pending"
        /\ calls' = [calls EXCEPT ![n].callback = IF ok THEN "fulfilled" ELSE "rejected"]
        /\ unhandled' = IF ok THEN unhandled ELSE unhandled \cup {<<n, "callback">>}
        /\ UNCHANGED <<lastDispatch, rotatorVars, eventVars>>

\* The promise of editReply or followUp is fulfilled (the notification is
\* sent) or rejected; the catch block did not await it.
NotificationSettles ==
    \E n \in 1..Len(calls), ok \in BOOLEAN :
        /\ calls[n].notifyState = "pending"
        /\ calls' = [calls EXCEPT ![n].notifyState = IF ok THEN "sent" ELSE "rejected"]
        /\ unhandled' = IF ok THEN unhandled ELSE unhandled \cup {<<n, "notification">>}
        /\ UNCHANGED <<lastDispatch, rotatorVars, eventVars>>

NoDispatch ==
    [interaction |-> [isCommand |-> FALSE, commandName |-> "unknown",
                      replied |-> FALSE, behaviour |-> "async"],
     invoked |-> FALSE, logged |-> FALSE, notify |-> "none"]

InitDispatch ==
    /\ calls = <<>>
    /\ lastDispatch = NoDispatch
    /\ unhandled = {}

NextDispatch ==
    \/ CommandHandler
    \/ CallbackSettles
    \/ NotificationSettles

---------------------------------------------------------------------------
(* registerEvents() and the emission of events *)

\* The files of the events directory, each with the event it names and its
\* once flag.
EventFiles == {"ready.js", "memberJoin.js", "welcome.js"}
EventOf(f) == IF f = "ready.js" THEN "ready" ELSE "guildMemberAdd"
Once(f) == f \in {"ready.js", "welcome.js"}
Events == { EventOf(f) : f \in EventFiles }

\* The files among the listeners ls.
Files(ls) == { ls[n] : n \in 1..Len(ls) }

\* Every listener added with this.on, whatever the once flag of its file.
RemovedOnFireNever(f) == FALSE

\* this.once(event.event, ...) or this.on(event.event, ...): whether the
\* listener of file f is removed when it is first invoked.
RemovedOnFire(f) == Once(f)

\* registerEvents(): forEach starts one async callback per file, each of which
\* stops at its await import(...); registerEvents returns without waiting for
\* any of them.
RegisterEvents ==
    /\ ~registered
    /\ registered' = TRUE
    /\ importing' = EventFiles
    /\ UNCHANGED <<listeners, runs, caught, emitsSince, undelivered, emitted,
                   lastEmit, rotatorVars, dispatchVars>>

\* The import of file f resolves and the rest of the forEach callback runs:
\* the wrapped callback is added as a listener of the event.
Attach ==
    \E f \in importing :
        /\ importing' = importing \ {f}
        /\ listeners' = [listeners EXCEPT ![EventOf(f)] = Append(@, f)]
        /\ UNCHANGED <<registered, runs, caught, emitsSince, undelivered, emitted,
                       lastEmit, rotatorVars, dispatchVars>>

\* A wrapper without the try block: the failure of the callback leaves it.
EscapesUncaught(f, failing) == f \in failing

\* The wrapper that eventCapture returns awaits the callback in a try block:
\* a throw or a rejection of the callback is caught, and nothing leaves the
\* wrapper.
Escapes(f, failing) == FALSE

\* The "Error in event" lines that the wrapper of file f logs in one emit.
Captured(f, failing) == IF f \in failing /\ ~Escapes(f, failing) THEN 1 ELSE 0

\* The listeners that one emit invokes: emit calls them in order, and stops
\* at the first one out of which an error escapes.
Invoked(ls, failing) ==
    { ls[n] : n \in { k \in 1..Len(ls) :
                        \A m \in 1..(k - 1) : ~Escapes(ls[m], failing) } }

NoEmit == [event |-> "none", listeners |-> <<>>, failing |-> {}, invoked |-> {}]

\* emit(e): the listeners of e are invoked, in order; a listener added with
\* once is removed as it is invoked.  The callbacks of the files in failing
\* throw or reject.
Emit ==
    \E e \in Events :
        \E failing \in SUBSET Files(listeners[e]) :
            LET ran == Invoked(listeners[e], failing) IN
            /\ emitted < MaxEmit
            /\ emitted' = emitted + 1
            /\ runs' = [f \in EventFiles |-> IF f \in ran THEN runs[f] + 1 ELSE runs[f]]
            /\ caught' = [f \in EventFiles |->
                             IF f \in ran THEN caught[f] + Captured(f, failing)
                                          ELSE caught[f]]
            /\ listeners' = [listeners EXCEPT
                                ![e] = SelectSeq(@, LAMBDA f :
                                                      ~(f \in ran /\ RemovedOnFire(f)))]
            /\ emitsSince' = [f \in EventFiles |->
                                 IF /\ EventOf(f) = e
                                    /\ registered
                                    /\ f \notin importing
                                 THEN emitsSince[f] + 1 ELSE emitsSince[f]]
            /\ undelivered' = IF registered
                              THEN undelivered \cup { f \in importing : EventOf(f) = e }
                              ELSE undelivered
            /\ unhandled' = unhandled \cup
                               { <<f, "event">> : f \in { g \in ran : Escapes(g, failing) } }
            /\ lastEmit' = [event |-> e, listeners |-> listeners[e],
                            failing |-> failing, invoked |-> ran]
            /\ UNCHANGED <<registered, importing, calls, lastDispatch, rotatorVars>>

InitEvents ==
    /\ registered = FALSE
    /\ importing = {}
    /\ listeners = [e \in Events |-> <<>>]
    /\ runs = [f \in EventFiles |-> 0]
    /\ caught = [f \in EventFiles |-> 0]
    /\ emitsSince = [f \in EventFiles |-> 0]
    /\ undelivered = {}
    /\ emitted = 0
    /\ lastEmit = NoEmit

NextEvents ==
    \/ RegisterEvents
    \/ Attach
    \/ Emit

---------------------------------------------------------------------------
(* Claims about authToken *)

\* The last call was authToken(token) with a string argument.
LastIsValidate == last.client # "none" /\ last.test.present

\* The last call was authToken() without an argument.
LastIsCurrentCredential == last.client # "none" /\ ~last.test.present

\* The client of the last call holds an unexpired authHash after that call.
LastUpToDate == authHash[last.client].expires > last.at

\* C3: for every string token, the empty string included, authToken(token)
\* returns true when the token is the now or the prev of the up-to-date
\* authHash, and returns false (no other value) for every other token.
C3_ValidateIffMatches ==
    LastIsValidate =>
        last.ret = RetBool(/\ LastUpToDate
                           /\ \/ last.test.value = authHash[last.client].now
                              \/ last.test.value = authHash[last.client].prev)

\* C4: with the secret configured, the now that one client returns from
\* authToken() at time t is accepted by authToken(token) on the other client
\* at the same time t, whatever each client has cached.
C4_PeerTokenAccepted ==
    (LastIsValidate /\ last.fromPeer /\ last.auth = Secret) => last.ret = RetBool(TRUE)

\* C5: with the secret configured, the hash of minute m is accepted by every
\* authToken(token) call made during minute m + 1.
C5_PreviousMinuteAccepted ==
    (/\ LastIsValidate
     /\ last.auth = Secret
     /\ last.at - TicksPerMinute >= boot
     /\ last.test.value = TokenAt(last.at - TicksPerMinute))
        => last.ret = RetBool(TRUE)

\* C6: the hash of minute m is rejected by every authToken(token) call made
\* during minute m + 2 or later.
C6_OlderMinuteRejected ==
    (/\ LastIsValidate
     /\ \E k \in 2..3 : /\ last.at - k * TicksPerMinute >= boot
                        /\ last.test.value = TokenAt(last.at - k * TicksPerMinute))
        => last.ret = RetBool(FALSE)

\* C7: when NUCLEUS_AUTH is not set and the cached authHash has expired,
\* authToken(token) returns false for every token.
C7_MissingSecretRejects ==
    (LastIsValidate /\ last.auth = "" /\ ~(last.before.expires > last.at))
        => last.ret = RetBool(FALSE)

\* A token that the expired authHash holds as now is presented while the
\* secret is missing, and the missing secret is logged.
C7_Witness ==
    /\ LastIsValidate
    /\ last.auth = ""
    /\ ~(last.before.expires > last.at)
    /\ last.before.now # ""
    /\ last.test.value = last.before.now
    /\ last.logged
    /\ last.ret = RetBool(FALSE)

\* C8: while the cached authHash has not expired, authToken() returns that
\* authHash (the same now, prev and expires) and leaves the cache as it was.
C8_CachedCredentialReturned ==
    (LastIsCurrentCredential /\ last.before.expires > last.at)
        => /\ last.ret = RetHash(last.before)
           /\ authHash[last.client] = last.before
           /\ ~last.recomputed

\* authToken() is called after the tick of generation, within the window of
\* a generated authHash.
C8_Witness ==
    /\ LastIsCurrentCredential
    /\ last.before.now # ""
    /\ last.before.expires > last.at
    /\ last.before.expires < last.at + Window
    /\ last.ret = RetHash(last.before)

\* C14: on every recomputation, the previous message is the secret, the day
\* of the month and the hour of the current message, and the minute before
\* the current one wrapped into 0..59.
C14_PreviousMinuteWrapped ==
    (last.client # "none" /\ last.recomputed) =>
        authHash[last.client].prev =
            Hash(last.auth \o ToString(getDate(last.at)) \o ToString(getHours(last.at))
                           \o ToString((getMinutes(last.at) + 59) % 60))

\* The authHash h was stored by one recomputation with the secret, at a time
\* g since construction: now and prev are the hashes of that time, and
\* expires is one minute after it.
OneGeneration(h) ==
    \E g \in boot..clock :
        /\ h.expires = g + TicksPerMinute
        /\ h.now = Hash(toHash(Secret, g))
        /\ h.prev = Hash(previousMinute(Secret, g))

C17_MissingSecretRecoverable ==
    /\ last.logged => authHash[last.client] = last.before
    /\ (last.afterMissing /\ last.auth = Secret) =>
          /\ last.recomputed
          /\ authHash[last.client].now = Hash(toHash(Secret, last.at))
          /\ authHash[last.client].expires = last.at + TicksPerMinute

\* A client that held an expired authHash and found no secret is called
\* again, later, with the secret set.
C17_Witness ==
    /\ last.afterMissing
    /\ last.auth = Secret
    /\ last.before.now # ""
    /\ last.at > last.before.expires
    /\ last.recomputed

\* C19: whenever the cached authHash has expired at the time of
\* authToken(token), the constructor's authHash included, the call either
\* returns false or returns true after comparing the token with the authHash
\* it has recomputed in that call.
C19_ExpiredCacheNeverDecides ==
    (LastIsValidate /\ ~(last.before.expires > last.at)) =>
        \/ last.ret = RetBool(FALSE)
        \/ /\ last.recomputed
           /\ last.ret = RetBool(TRUE)
           /\ last.test.value \in {authHash[last.client].now, authHash[last.client].prev}

\* The time at which the authHash h was generated.
GeneratedAt(h) == h.expires - Window

\* C18: for a fixed secret, the messages hashed at two times that differ in
\* the day of the month, the hour or the minute are different, and so are the
\* hashes that two clients hold as now after generating at such times.
C18_DistinctMinutesDistinctHashes ==
    \A c, d \in Clients :
        (/\ authHash[c].now # ""
         /\ authHash[d].now # ""
         /\ Triple(GeneratedAt(authHash[c])) # Triple(GeneratedAt(authHash[d])))
            => /\ toHash(Secret, GeneratedAt(authHash[c]))
                    # toHash(Secret, GeneratedAt(authHash[d]))
               /\ authHash[c].now # authHash[d].now

---------------------------------------------------------------------------
(* Claims about commandHandler and about the events *)

\* The callback of call n failed: it threw, or its promise was rejected.
Failed(n) == calls[n].callback \in {"threw", "rejected"}

\* C1: whenever the callback of a registered command fails during
\* commandHandler, by throwing or by the rejection of the promise it returned,
\* one failure notification (editReply or followUp) is made for that call.
C1_FailureNotifiedOnce ==
    \A n \in 1..Len(calls) : Failed(n) => calls[n].notify # "none"

\* C2: no failure of a callback is left uncaught: no promise that a callback
\* returned is rejected without anything handling the rejection.
C2_NoUnhandledCallbackFailure ==
    \A u \in unhandled : u[2] \notin {"callback", "event"}

\* C9: once registerEvents has returned, an event that is emitted reaches the
\* callback of every event file of that event.
C9_RegisteredBeforeEmit == registered => undelivered = {}

\* File f has been added as a listener (it may have been removed since).
Attached(f) == registered /\ f \notin importing

\* C10: from the moment it is attached, a callback registered with once runs
\* on the first emit of its event and never again (it is no longer a listener
\* after that emit, whether it failed or not), and a callback registered with
\* on runs once for every emit of its event.
C10_OnceRunsOnceOnRunsEveryTime ==
    \A f \in EventFiles :
        IF Once(f)
        THEN /\ runs[f] = IF emitsSince[f] >= 1 THEN 1 ELSE 0
             /\ f \in Files(listeners[EventOf(f)]) <=> (Attached(f) /\ runs[f] = 0)
        ELSE runs[f] = emitsSince[f]

\* A once callback that failed on its only run has seen two emits, and an on
\* callback has run twice.
C10_Witness ==
    /\ \E f \in EventFiles :
          Once(f) /\ emitsSince[f] >= 2 /\ runs[f] = 1 /\ caught[f] = 1
    /\ \E f \in EventFiles : ~Once(f) /\ emitsSince[f] >= 2 /\ runs[f] = 2

\* C12: for every command name that is no registered command,
\* commandHandler calls no callback, logs nothing and sends no notification.
C12_UnregisteredNameIsNoOp ==
    lastDispatch.interaction.commandName \notin Commands
        => /\ ~lastDispatch.invoked
           /\ ~lastDispatch.logged
           /\ lastDispatch.notify = "none"

\* C13: a failure of the notification that reports a failed callback (the
\* rejection of editReply or followUp) is contained: it is never left as a
\* rejection that nothing handles.
C13_NotificationFailureContained ==
    \A u \in unhandled : u[2] # "notification"

\* The registered commands, as interactions that commandHandler may receive.
Registered ==
    { i \in Interactions :
        i.isCommand /\ i.commandName \in Commands
                    /\ i.behaviour \in Behaviours(i.commandName) }

\* C16: commandHandler returns without waiting for the promise of the
\* callback, and while callbacks are pending every registered command can
\* still be dispatched; a step of the dispatcher writes neither authHash nor
\* the listeners.
C16_DispatchDoesNotWait ==
    /\ [](/\ \A n \in 1..Len(calls) : calls[n].handler = "returned"
          /\ Len(calls) < MaxDispatch => \A i \in Registered : ENABLED Dispatch(i))
    /\ [][calls' # calls => UNCHANGED <<authHash, listeners>>]_vars

\* A second callback of the same command is called while the first is still
\* pending.
C16_Witness ==
    /\ Len(calls) >= 2
    /\ calls[1].callback = "pending"
    /\ calls[2].name = calls[1].name
    /\ calls[2].handler = "returned"

\* C11: in every emit, the failure of the callback of one listener, by a
\* throw or by a rejection, keeps no other listener of the event from being
\* invoked in that emit, and a failing listener added with on is still a
\* listener of the event for the emits that follow.
C11_FailureDoesNotStopOthers ==
    /\ lastEmit.invoked = Files(lastEmit.listeners)
    /\ \A f \in lastEmit.failing :
          ~Once(f) => f \in Files(listeners[lastEmit.event])

\* The first of two listeners fails, both are invoked, and the on listener
\* among them has by then failed in two emits.
C11_Witness ==
    /\ Len(lastEmit.listeners) >= 2
    /\ lastEmit.listeners[1] \in lastEmit.failing
    /\ lastEmit.invoked = Files(lastEmit.listeners)
    /\ \E f \in lastEmit.failing : ~Once(f) /\ caught[f] >= 2 /\ runs[f] >= 2

Init == InitRotator /\ InitDispatch /\ InitEvents

Next == NextRotator \/ NextDispatch \/ NextEvents

\* The rotating hash alone, the dispatcher alone, the events alone: the three
\* share no state.
SpecRotator == Init /\ [][NextRotator]_vars
SpecDispatch == Init /\ [][NextDispatch]_vars
SpecEvents == Init /\ [][NextEvents]_vars

\* The rotating hash over the times of a month.
InitLongRun == InitCalendar /\ InitDispatch /\ InitEvents
SpecCalendar == InitLongRun /\ [][NextCalendar]_vars

Spec == Init /\ [][Next]_vars

=============================================================================
